---- MODULE Spec2Model ----
(***************************************************************************)
(* State-machine model of my_scraper: the Scraper class (scraper.py, HTTP  *)
(* session with urllib3 retry policy) and the DynamicScraper class         *)
(* (dynamic_scraper.py, Selenium Chrome driver).  One instance of either   *)
(* class is constructed, its url is reassigned, and scrape() is called     *)
(* repeatedly against a nondeterministic server / browser.                 *)
(***************************************************************************)
EXTENDS Integers, Sequences, FiniteSets, TLC

(***************************************************************************)
(* Bounds                                                                  *)
(***************************************************************************)
\* largest retry count given to Scraper(...)
MaxRetries == 5
\* number of DynamicScraper.scrape() calls explored
MaxCalls == 3

\* default of the retries parameter of Scraper.__init__
DefaultRetries == 5

(***************************************************************************)
(* Python values: None, str (sequence of characters), int, dict,           *)
(* BeautifulSoup document.                                                 *)
(***************************************************************************)
None == [t |-> "None", s |-> <<>>, n |-> 0]
Str(s) == [t |-> "str", s |-> s, n |-> 0]
PyInt(n) == [t |-> "int", s |-> <<>>, n |-> n]
Dict(s) == [t |-> "dict", s |-> s, n |-> 0]
\* BeautifulSoup(content, "html.parser")
Soup(s) == [t |-> "soup", s |-> s, n |-> 0]

\* Python truth value of v (the `not url` / `if self._data` tests)
Truthy(v) ==
    CASE v.t = "None" -> FALSE
      [] v.t = "int" -> v.n # 0
      [] v.t = "str" -> Len(v.s) > 0
      [] v.t = "dict" -> Len(v.s) > 0
      [] OTHER -> TRUE

\* str.startswith on character sequences
StartsWith(s, p) == Len(s) >= Len(p) /\ SubSeq(s, 1, Len(p)) = p

Http == <<"h", "t", "t", "p">>
HttpPrefix == Http \o <<":", "/", "/">>
HttpsPrefix == Http \o <<"s", ":", "/", "/">>

\* url arguments a caller may pass
UrlArgs ==
    { Str(HttpPrefix \o <<"a">>),
      Str(HttpsPrefix \o <<"a">>),
      Str(Http \o <<"x", ":", "/", "/", "a">>),
      Str(Http),
      Str(<<"f", "t", "p", ":", "/", "/", "a">>),
      Str(<<"a", ".", "c">>),
      Str(<<>>),
      None,
      PyInt(0),
      PyInt(7) }

\* page markup a server or browser may deliver
Markup == { <<"m", "1">>, <<"m", "2">> }

(***************************************************************************)
(* url setter (identical in both classes): the ValueError message, or      *)
(* "ok" when the value is stored.                                          *)
(***************************************************************************)
UrlSetterError(u) ==
    IF ~Truthy(u) THEN "URL cannot be None"
    ELSE IF u.t # "str" THEN "URL must be a string"
    ELSE IF ~StartsWith(u.s, Http) THEN "URL must start with http or https"
    ELSE "ok"

\* headers setter of Scraper: None is replaced by the default User-Agent
DefaultHeaders == Dict(<<"User-Agent", "Mozilla/5.0">>)
ScraperHeaders(h) == IF h.t = "None" THEN DefaultHeaders ELSE h

(***************************************************************************)
(* requests.Session built by Scraper._create_session                       *)
(***************************************************************************)
\* a forcelist that also retries 404
StatusForcelistWith404 == {404, 500, 502, 503, 504}
\* status_forcelist of the Retry policy
StatusForcelist == {500, 502, 503, 504}

NoSession == [made |-> FALSE, total |-> 0, prefixes |-> {}, proxies |-> None]
\* variants of _create_session with Retry(total=...) one off
CreateSessionExtraRetry(r, p) ==
    [made |-> TRUE, total |-> r + 1, prefixes |-> {HttpPrefix, HttpsPrefix},
     proxies |-> IF Truthy(p) THEN p ELSE None]
CreateSessionOneShort(r, p) ==
    [made |-> TRUE, total |-> r - 1, prefixes |-> {HttpPrefix, HttpsPrefix},
     proxies |-> IF Truthy(p) THEN p ELSE None]
\* Retry(total=self.retries, ...), mounted on "http://" and "https://"
CreateSession(r, p) ==
    [made |-> TRUE, total |-> r, prefixes |-> {HttpPrefix, HttpsPrefix},
     proxies |-> IF Truthy(p) THEN p ELSE None]

\* Session.get_adapter: a request is sent only for a mounted prefix
Sendable(sess, u) == \E p \in sess.prefixes : StartsWith(u.s, p)

(***************************************************************************)
(* Server behaviour during one Scraper.scrape() call: the first `pre`      *)
(* requests get `kind`, every later one gets `final`.  A server either     *)
(* answers the same way throughout, or recovers to 200 after a run of      *)
(* transient failures.                                                     *)
(***************************************************************************)
Status(c) == [err |-> "none", status |-> c]
NetErr(e) == [err |-> e, status |-> 0]
Transient == {Status(c) : c \in StatusForcelist} \cup {NetErr("refused"), NetErr("timeout")}
Scripts ==
    { [pre |-> k, kind |-> a, final |-> Status(200)] :
        k \in 1..(MaxRetries + 1), a \in Transient }
    \cup { [pre |-> 0, kind |-> f, final |-> f] :
        f \in Transient \cup {Status(200), Status(404)} }
Answer(sc, i) == IF i <= sc.pre THEN sc.kind ELSE sc.final

NoScript == [pre |-> 0, kind |-> Status(200), final |-> Status(200)]
\* no request sent, no page visited yet
NoTarget == [t |-> "unset", s |-> <<>>, n |-> 0]
NoResp == [exc |-> "none", status |-> 0, body |-> <<>>]

\* Response.raise_for_status: 4xx and 5xx raise HTTPError
RaiseForStatus(c) == c >= 400 /\ c < 600

\* requests.exceptions.RequestException and its subclasses met here
RequestExceptions ==
    {"RequestException", "HTTPError", "ConnectionError", "ReadTimeout", "InvalidSchema"}
\* except clauses that catch HTTPError only
ScrapeCatchesHttpErrorOnly(e) == e = "HTTPError"
\* the except clauses of Scraper.scrape
ScrapeCatches(e) == e \in {"ConnectionError", "ReadTimeout"} \/ e \in RequestExceptions

\* the except clauses of DynamicScraper.scrape
DynCatches(e) == e = "TimeoutException" \/ e = "WebDriverException"

\* DynamicScraper.data getter
DataGetter(d) == IF Truthy(d) THEN d ELSE Str(<<>>)

(***************************************************************************)
(* State                                                                   *)
(***************************************************************************)
VARIABLES
    obj,        \* class of the constructed instance, "none" when there is none
    url, headers, proxy, retries, data, session,   \* its attributes
    pc,         \* position inside scrape(): "idle" between calls
    raised,     \* exception the last operation propagated to its caller
    lastOp,     \* last operation the caller invoked
    lastArg,    \* url argument of that operation
    script,     \* server behaviour during the current Scraper.scrape()
    total,      \* Retry.total left in the current session.get
    sent,       \* GET requests sent by the current / last Scraper.scrape()
    resp,       \* result of session.get, or the page source read
    drivers,    \* Chrome drivers launched: creating call and number of quit()s
    calls,      \* DynamicScraper.scrape() calls started
    pending,    \* exception propagating through the finally block
    outcome,    \* "success" when the last scrape() stored markup
    lastTarget  \* url of the last GET sent / page navigated to

vars == <<obj, url, headers, proxy, retries, data, session, pc, raised, lastOp,
          lastArg, script, total, sent, resp, drivers, calls, pending, outcome,
          lastTarget>>

attrs == <<url, headers, proxy, retries, data, session>>
staticVars == <<script, total, sent>>
dynVars == <<drivers, calls, pending>>

Init ==
    /\ obj = "none"
    /\ url = None /\ headers = None /\ proxy = None /\ retries = 0
    /\ data = None /\ session = NoSession
    /\ pc = "idle" /\ raised = "none" /\ lastOp = "none" /\ lastArg = None
    /\ script = NoScript /\ total = 0 /\ sent = 0 /\ resp = NoResp
    /\ drivers = <<>> /\ calls = 0 /\ pending = "none"
    /\ outcome = "none" /\ lastTarget = NoTarget

(***************************************************************************)
(* Construction and url assignment                                         *)
(***************************************************************************)
\* a variant of Scraper.__init__ that builds the session before it stores the url
NewScraperSessionFirst(u, r, p) ==
    /\ obj = "none" /\ pc = "idle"
    /\ lastOp' = "New" /\ lastArg' = u
    /\ session' = CreateSession(r, p)
    /\ IF UrlSetterError(u) # "ok"
       THEN /\ raised' = "ValueError"
            /\ UNCHANGED <<obj, url, headers, proxy, retries, data>>
       ELSE /\ raised' = "none"
            /\ obj' = "Scraper"
            /\ url' = u
            /\ headers' = ScraperHeaders(None)
            /\ retries' = r
            /\ proxy' = p
            /\ data' = None
    /\ UNCHANGED <<pc, staticVars, resp, dynVars, outcome, lastTarget>>

\* Scraper(url, retries=r, proxy=p)
NewScraper(u, r, p) ==
    /\ obj = "none" /\ pc = "idle"
    /\ lastOp' = "New" /\ lastArg' = u
    /\ IF UrlSetterError(u) # "ok"
       THEN /\ raised' = "ValueError"
            /\ UNCHANGED <<obj, attrs>>
       ELSE /\ raised' = "none"
            /\ obj' = "Scraper"
            /\ url' = u
            /\ headers' = ScraperHeaders(None)
            /\ retries' = r
            /\ proxy' = p
            /\ data' = None
            /\ session' = CreateSession(r, p)
    /\ UNCHANGED <<pc, staticVars, resp, dynVars, outcome, lastTarget>>

\* DynamicScraper(url)
NewDynamicScraper(u) ==
    /\ obj = "none" /\ pc = "idle"
    /\ lastOp' = "New" /\ lastArg' = u
    /\ IF UrlSetterError(u) # "ok"
       THEN /\ raised' = "ValueError"
            /\ UNCHANGED <<obj, attrs>>
       ELSE /\ raised' = "none"
            /\ obj' = "DynamicScraper"
            /\ url' = u
            /\ headers' = None
            /\ data' = None
            /\ UNCHANGED <<proxy, retries, session>>
    /\ UNCHANGED <<pc, staticVars, resp, dynVars, outcome, lastTarget>>

\* a variant of the url setter that stores the value before it validates it
SetUrlStoreFirst(u) ==
    /\ obj # "none" /\ pc = "idle"
    /\ lastOp' = "SetUrl" /\ lastArg' = u
    /\ url' = u
    /\ raised' = IF UrlSetterError(u) # "ok" THEN "ValueError" ELSE "none"
    /\ UNCHANGED <<obj, headers, proxy, retries, data, session>>
    /\ UNCHANGED <<pc, staticVars, resp, dynVars, outcome, lastTarget>>

\* scraper.url = u
SetUrl(u) ==
    /\ obj # "none" /\ pc = "idle"
    /\ lastOp' = "SetUrl" /\ lastArg' = u
    /\ IF UrlSetterError(u) # "ok"
       THEN /\ raised' = "ValueError"
            /\ UNCHANGED url
       ELSE /\ raised' = "none"
            /\ url' = u
    /\ UNCHANGED <<obj, headers, proxy, retries, data, session>>
    /\ UNCHANGED <<pc, staticVars, resp, dynVars, outcome, lastTarget>>

(***************************************************************************)
(* Scraper.scrape(): clear data, session.get with urllib3 retries,         *)
(* raise_for_status, parse, except clauses.                                *)
(***************************************************************************)
Response(c, m) == [exc |-> "none", status |-> c, body |-> m]
Failed(e) == [exc |-> e, status |-> 0, body |-> <<>>]

\* entry of scrape() up to the adapter lookup of session.get
StaticScrape ==
    /\ obj = "Scraper" /\ pc = "idle"
    /\ session.made /\ url.t # "None"
    /\ lastOp' = "scrape" /\ lastArg' = None
    /\ raised' = "none" /\ outcome' = "none"
    /\ data' = None
    /\ \E sc \in Scripts : script' = sc
    /\ sent' = 0
    /\ total' = session.total
    /\ IF Sendable(session, url)
       THEN pc' = "get" /\ resp' = NoResp
       ELSE pc' = "ret" /\ resp' = Failed("InvalidSchema")
    /\ UNCHANGED <<obj, url, headers, proxy, retries, session, dynVars, lastTarget>>

\* one GET of session.get: urllib3 retries a forcelisted status or a
\* connection error while Retry.total lasts (raise_on_status=False)
Attempt ==
    /\ pc = "get"
    /\ sent' = sent + 1
    /\ lastTarget' = url
    /\ LET a == Answer(script, sent + 1)
           retry == a.err # "none" \/ a.status \in StatusForcelist
       IN IF retry /\ total - 1 >= 0
          THEN /\ total' = total - 1
               /\ UNCHANGED <<pc, resp>>
          ELSE /\ pc' = "ret"
               /\ UNCHANGED total
               /\ IF a.err # "none"
                  THEN resp' = Failed("ConnectionError")
                  ELSE \E m \in Markup : resp' = Response(a.status, m)
    /\ UNCHANGED <<obj, attrs, raised, lastOp, lastArg, script, dynVars, outcome>>

\* raise_for_status, BeautifulSoup, except clauses, return
StaticReturn ==
    /\ pc = "ret"
    /\ pc' = "idle"
    /\ LET e == IF resp.exc # "none" THEN resp.exc
                ELSE IF RaiseForStatus(resp.status) THEN "HTTPError"
                ELSE "none"
       IN IF e = "none"
          THEN /\ data' = Soup(resp.body)
               /\ outcome' = "success"
               /\ raised' = "none"
          ELSE /\ UNCHANGED data
               /\ outcome' = "failure"
               /\ raised' = IF ScrapeCatches(e) THEN "none" ELSE e
    /\ UNCHANGED <<obj, url, headers, proxy, retries, session, lastOp, lastArg,
                   staticVars, resp, dynVars, lastTarget>>

(***************************************************************************)
(* DynamicScraper.scrape(): launch, navigate, wait for <body>, read the    *)
(* page source, quit in the finally block.                                 *)
(***************************************************************************)
\* entry of scrape() and _create_driver: the launch succeeds or raises
DynScrape ==
    /\ obj = "DynamicScraper" /\ pc = "idle"
    /\ calls < MaxCalls
    /\ Truthy(url)
    /\ lastOp' = "scrape" /\ lastArg' = None
    /\ calls' = calls + 1
    /\ pending' = "none"
    /\ \/ /\ drivers' = Append(drivers, [call |-> calls + 1, quits |-> 0])
          /\ pc' = "nav"
          /\ raised' = "none"
          /\ outcome' = "none"
       \/ /\ raised' = "WebDriverException"
          /\ outcome' = "failure"
          /\ UNCHANGED <<drivers, pc>>
    /\ UNCHANGED <<obj, attrs, staticVars, resp, lastTarget>>

\* an exception inside the try block: caught by an except clause, or left
\* pending for the finally block to re-raise
Thrown(e) ==
    /\ pc' = "finally"
    /\ pending' = IF DynCatches(e) THEN "none" ELSE e
    /\ outcome' = "failure"

\* driver.get(self.url)
Navigate ==
    /\ pc = "nav"
    /\ lastTarget' = url
    /\ \/ pc' = "wait" /\ UNCHANGED <<pending, outcome>>
       \/ \E e \in {"WebDriverException", "Exception"} : Thrown(e)
    /\ UNCHANGED <<obj, attrs, raised, lastOp, lastArg, staticVars, resp,
                   drivers, calls>>

\* WebDriverWait(driver, timeout).until(presence of body)
WaitBody ==
    /\ pc = "wait"
    /\ \/ pc' = "source" /\ UNCHANGED <<pending, outcome>>
       \/ \E e \in {"TimeoutException", "WebDriverException", "Exception"} : Thrown(e)
    /\ UNCHANGED <<obj, attrs, raised, lastOp, lastArg, staticVars, resp,
                   drivers, calls, lastTarget>>

\* self.data = driver.page_source
ReadSource ==
    /\ pc = "source"
    /\ \/ \E m \in Markup :
            /\ data' = Str(m)
            /\ resp' = Response(200, m)
            /\ outcome' = "success"
            /\ pc' = "finally"
            /\ UNCHANGED pending
       \/ /\ \E e \in {"WebDriverException", "Exception"} : Thrown(e)
          /\ UNCHANGED <<data, resp>>
    /\ UNCHANGED <<obj, url, headers, proxy, retries, session, raised, lastOp,
                   lastArg, staticVars, drivers, calls, lastTarget>>

\* a variant that quits the driver at the end of the try body only
DriverQuitOnSuccessOnly ==
    /\ pc = "finally"
    /\ drivers' = IF outcome = "success"
                  THEN [drivers EXCEPT ![Len(drivers)].quits = @ + 1]
                  ELSE drivers
    /\ raised' = pending
    /\ pc' = "idle"
    /\ UNCHANGED <<obj, attrs, lastOp, lastArg, staticVars, resp, calls,
                   pending, outcome, lastTarget>>

\* finally: driver.quit(), then return or re-raise
DriverQuit ==
    /\ pc = "finally"
    /\ drivers' = [drivers EXCEPT ![Len(drivers)].quits = @ + 1]
    /\ raised' = pending
    /\ pc' = "idle"
    /\ UNCHANGED <<obj, attrs, lastOp, lastArg, staticVars, resp, calls,
                   pending, outcome, lastTarget>>

(***************************************************************************)
(* Specifications                                                          *)
(***************************************************************************)
Next ==
    \/ \E u \in UrlArgs, r \in 0..MaxRetries, p \in {None, Str(<<"p">>)} :
          NewScraper(u, r, p)
    \/ \E u \in UrlArgs : NewDynamicScraper(u)
    \/ \E u \in UrlArgs : SetUrl(u)
    \/ StaticScrape
    \/ Attempt
    \/ StaticReturn
    \/ DynScrape
    \/ Navigate
    \/ WaitBody
    \/ ReadSource
    \/ DriverQuit

Spec == Init /\ [][Next]_vars

\* a scrape() call in progress keeps running: the calling thread is not
\* suspended, and each GET ends within the (5, timeout) limits
LiveSpec ==
    /\ Spec
    /\ WF_vars(Attempt)
    /\ WF_vars(StaticReturn)

(***************************************************************************)
(* Properties                                                              *)
(***************************************************************************)
\* a string that declares the scheme http:// or https://
WellFormedHttpUrl(u) ==
    u.t = "str" /\ (StartsWith(u.s, HttpPrefix) \/ StartsWith(u.s, HttpsPrefix))

RetryableStatuses == {500, 502, 503, 504}
IsRetryableStatus(a) == a.err = "none" /\ a.status \in RetryableStatuses

\* the server answers every request with a retryable status
AlwaysRetryableStatus(sc) == IsRetryableStatus(sc.kind) /\ IsRetryableStatus(sc.final)
\* the server answers sc.pre requests with a retryable status, then 200
RetryableThen200(sc) ==
    sc.final = Status(200) /\ (sc.pre > 0 => IsRetryableStatus(sc.kind))
\* every attempt fails at the network level
NetDown(sc) == sc.kind.err # "none" /\ sc.final.err # "none"

StaticCall == obj = "Scraper" /\ lastOp = "scrape"
DynCall == obj = "DynamicScraper" /\ lastOp = "scrape"

\* markup held by the data attribute, <<>> when it holds none
HeldMarkup ==
    IF obj = "Scraper" THEN (IF data.t = "soup" THEN data.s ELSE <<>>)
    ELSE DataGetter(data).s

\* C1: construction and url assignment succeed exactly for the strings that
\* declare the scheme http:// or https://, and raise ValueError for every
\* other value.
C1_UrlValidationExact ==
    lastOp \in {"New", "SetUrl"} =>
        IF WellFormedHttpUrl(lastArg)
        THEN raised = "none" /\ obj # "none" /\ url = lastArg
        ELSE raised = "ValueError"

\* C2: each DynamicScraper.scrape() call creates at most one driver, quits it
\* exactly once, and no driver of a completed call is still running.
C2_BrowserTerminated ==
    /\ Len(drivers) <= calls
    /\ \A i \in DOMAIN drivers : drivers[i].quits <= 1
    /\ \A i \in DOMAIN drivers :
          (pc = "idle" \/ i < Len(drivers)) => drivers[i].quits = 1
    /\ \A i, j \in DOMAIN drivers : drivers[i].call = drivers[j].call => i = j

C2_Witness ==
    /\ DynCall /\ pc = "idle" /\ raised = "Exception"
    /\ Len(drivers) = 2 /\ drivers[2].quits = 1

\* C3: DynamicScraper.scrape() never propagates a WebDriverException or a
\* TimeoutException, wherever it occurs (launch, navigation, wait).
C3_DriverFailuresRecovered ==
    (DynCall /\ pc = "idle") => raised \notin {"WebDriverException", "TimeoutException"}

C5_RetriesUntilSuccess ==
    ( /\ StaticCall /\ pc = "idle"
      /\ WellFormedHttpUrl(url)
      /\ RetryableThen200(script) /\ script.pre <= retries )
    => /\ outcome = "success" /\ raised = "none"
       /\ resp.status = 200 /\ data = Soup(resp.body)
       /\ sent = script.pre + 1

C5_Witness ==
    /\ StaticCall /\ pc = "idle" /\ retries = DefaultRetries
    /\ script = [pre |-> 3, kind |-> Status(503), final |-> Status(200)]
    /\ sent = 4 /\ outcome = "success" /\ data.t = "soup"

C7_NoResultCarriedOver ==
    (lastOp = "scrape" /\ pc = "idle") =>
        /\ (HeldMarkup # <<>>) <=> (outcome = "success")
        /\ outcome = "success" => HeldMarkup = resp.body

\* C8: a rejected url leaves no session, no driver and no request behind, and
\* no GET or navigation ever targets a url that failed validation.
C8_InvalidInputFailsFast ==
    /\ obj = "none" =>
          /\ ~session.made /\ drivers = <<>> /\ calls = 0
          /\ sent = 0 /\ lastTarget = NoTarget
    /\ lastTarget # NoTarget => UrlSetterError(lastTarget) = "ok"
    /\ (lastOp \in {"New", "SetUrl"} /\ raised = "ValueError") => lastTarget # lastArg

C8_Witness ==
    /\ obj = "none" /\ lastOp = "New" /\ raised = "ValueError"
    /\ lastArg = Str(<<"f", "t", "p", ":", "/", "/", "a">>)

C10_RejectedAssignmentChangesNothing ==
    /\ [](obj # "none" => UrlSetterError(url) = "ok")
    /\ [][(obj # "none" /\ lastOp' = "SetUrl" /\ raised' = "ValueError")
            => UNCHANGED <<obj, url, headers, proxy, retries, data, session>>]_vars

C10_Witness ==
    /\ obj = "Scraper" /\ lastOp = "SetUrl" /\ raised = "ValueError"
    /\ data.t = "soup" /\ lastArg = Str(<<"a", ".", "c">>)

====
